---- MODULE Spec2Model ----
(***************************************************************************)
(* Model of the persistent vector store of AI Study Buddy Pro              *)
(* (src/src/core/vectordb.py) together with the embedding provider wrapper *)
(* (src/src/utils/helper.py: get_embedding).                               *)
(*                                                                         *)
(* Abstractions.                                                           *)
(*  - A text is a sequence of one-character strings.                       *)
(*  - An embedding vector is a record [d, v]: d is its dimension, v an     *)
(*    integer coordinate standing for its direction; the provider maps a   *)
(*    text to [d |-> EmbedDim, v |-> EmbedVal(text)] and the zero vector   *)
(*    of helper.py:107 is [d |-> ZeroDim, v |-> 0].                        *)
(*  - A FAISS IndexFlatL2 is a record [null, d, xb]: xb is the sequence    *)
(*    of stored vector coordinates in insertion order, ntotal = Len(xb).   *)
(*  - A file on disk (store artifact, cache entry) is "missing",           *)
(*    "unreadable" (pickle.load raises) or "ok" with its content.          *)
(*  - A chunk carries text, page and (once stored) index; the source and   *)
(*    headers fields are passed through untouched by every operation and   *)
(*    are left out.                                                        *)
(***************************************************************************)
EXTENDS Integers, Sequences, FiniteSets, TLC

\* ---------------------------------------------------------------- bounds
MaxChunks == 2
MaxStore == 2

\* ------------------------------------------------------ program constants
ZeroDim == 768
TOP_K == 5

\* Length of the vectors served by "models/gemini-embedding-001", the model
\* named at helper.py:100 (no output_dimensionality is requested).
EmbedDim == 3072

\* ------------------------------------------------------------ input sets
Alphabet == <<"a", "i", "A", "I", " ", ",", ".">>

CharCode(c) == CHOOSE k \in 1..Len(Alphabet) : Alphabet[k] = c

Queries == { <<>>, <<"a", "i">> }

Pages == {1, 2}

Files == {"docs/doc.pdf"}

NoFile == ""

Contents == {1, 2}

Unreadable == 0

\* A second source file with the basename of the first.
OtherFile == "notes/doc.pdf"

AllFiles == Files \cup {OtherFile}

Basename(f) == CASE f = "docs/doc.pdf" -> "doc"
                 [] f = "notes/doc.pdf" -> "doc"

TextList == << <<"A", "I">>, <<"a", "i", " ", " ", ".">> >>

Texts == {TextList[i] : i \in 1..Len(TextList)}

\* The chunks of a source document as process_pdf yields them, in order;
\* the chunk lists handed to build_vector_store are its prefixes.
DocChunk(i) == [text |-> TextList[((i - 1) % Len(TextList)) + 1], page |-> 1]

ChunkLists == {[i \in 1..n |-> DocChunk(i)] : n \in 0..MaxChunks}

\* ------------------------------------------------------ embedding provider
\* The opaque provider: a deterministic, injective map from text to vector.
RECURSIVE EmbedVal(_)
EmbedVal(t) ==
  IF t = <<>> THEN 0
  ELSE CharCode(Head(t)) + (Len(Alphabet) + 1) * EmbedVal(Tail(t))

ZeroVec == [d |-> ZeroDim, v |-> 0]

\* get_embedding for an available API key: one vector per text, in order;
\* the items in fail raise inside genai.embed_content and become ZeroVec.
get_embedding(texts, fail, dim) ==
  [i \in 1..Len(texts) |->
     IF i \in fail THEN ZeroVec ELSE [d |-> dim, v |-> EmbedVal(texts[i])]]

\* ---------------------------------------------------------------- hashing
EmptyHash == <<>>

MD5(c) == <<"md5", c>>

NoPath == <<>>

CachePaths == {<<Basename(f), MD5(c)>> : f \in Files, c \in Contents}

\* ----------------------------------------------------------------- state
VARIABLES
  store,     \* the artifact at VECTOR_STORE_FILE
  cache,     \* the artifacts under EMBEDDING_CACHE_DIR, by path
  files,     \* bytes of each source file (Unreadable when open() fails)
  apiKey,    \* helper.API_KEY is set
  last,      \* the last operation: arguments and outcome
  indexDim,  \* history, kept by SpecDim only: the dimension of the index
             \* persisted last since creation or the last clear, 0 when
             \* none was persisted
  builders,  \* the build_vector_store calls in progress: position and locals
  session,   \* st.session_state of the Streamlit session
  fallback   \* the _fallback_quiz_from_context call: position and locals

\* No call in progress; no session.
NoBuilders == <<>>

NoSession == <<>>

NoFallback == <<>>

vars == <<store, cache, files, apiKey, last, indexDim, builders, session, fallback>>

get_file_hash(f) ==
  IF files[f] = Unreadable THEN EmptyHash ELSE MD5(files[f])

get_embedding_path(f) ==
  LET file_hash == get_file_hash(f)
  IN IF file_hash = EmptyHash THEN NoPath ELSE <<Basename(f), file_hash>>

\* ------------------------------------------------------- artifact values
NullIndex == [null |-> TRUE, d |-> 0, xb |-> <<>>]

IndexFlatL2(dim) == [null |-> FALSE, d |-> dim, xb |-> <<>>]

EmptyMap == [f \in {} |-> 0]

\* existing_data as initialised at vectordb.py:73
EmptyData == [index |-> NullIndex, chunks |-> <<>>, file_map |-> EmptyMap]

MissingFile == [kind |-> "missing", data |-> EmptyData]

UnreadableFile == [kind |-> "unreadable", data |-> EmptyData]

OkFile(data) == [kind |-> "ok", data |-> data]

NoEntry == [kind |-> "missing", embeddings |-> <<>>, chunks |-> <<>>]

BadEntry == [kind |-> "unreadable", embeddings |-> <<>>, chunks |-> <<>>]

OkEntry(embs, chunks) == [kind |-> "ok", embeddings |-> embs, chunks |-> chunks]

ntotal(index) == Len(index.xb)

\* --------------------------------------------------------------- outcome
\* The arguments of a read operation, as the outcome records them.
NoArgs == [query |-> <<>>, top_k |-> 0, threshold |-> [null |-> TRUE, value |-> [m |-> 0, e |-> 0]],
           keyword |-> <<>>, page_num |-> 0]

Outcome(op, raised, ret, out, calls, chunks, src, hit) ==
  [op |-> op, raised |-> raised, ret |-> ret, out |-> out, calls |-> calls,
   chunks |-> chunks, src |-> src, hit |-> hit, fail |-> {}, args |-> NoArgs]

\* ------------------------------------------------------ build_vector_store
\* vectordb.py:73-79: the pickled record when the artifact exists and loads,
\* the empty record otherwise.
ExistingData(artifact) ==
  IF artifact.kind = "ok" THEN artifact.data ELSE EmptyData

\* A build that never reads the cache.
CachedEmbeddingsIgnored(sf, entries) == <<>>

\* A read that takes an entry that fails to load for one zero vector.
CachedEmbeddingsOfBadEntry(sf, entries) ==
  LET embedding_path == IF sf = NoFile THEN NoPath ELSE get_embedding_path(sf)
  IN IF embedding_path = NoPath THEN <<>>
     ELSE IF entries[embedding_path].kind = "ok" THEN entries[embedding_path].embeddings
     ELSE IF entries[embedding_path].kind = "unreadable" THEN <<ZeroVec>>
     ELSE <<>>

\* vectordb.py:82-92: the cached embedding list, <<>> when there is no
\* source file, no path, no entry or an entry that fails to load.
CachedEmbeddings(sf, entries) ==
  LET embedding_path == IF sf = NoFile THEN NoPath ELSE get_embedding_path(sf)
  IN IF embedding_path # NoPath /\ entries[embedding_path].kind = "ok"
     THEN entries[embedding_path].embeddings
     ELSE <<>>

\* vectordb.py:99-108: the cache after the write attempt. woutcome is what
\* the write did: "ok", "partial" (dump failed after open truncated the
\* file) or "unwritten" (open failed); both failures are logged, not raised.
CacheAfterWrite(sf, entries, new_embeddings, chunks, woutcome) ==
  LET embedding_path == IF sf = NoFile THEN NoPath ELSE get_embedding_path(sf)
  IN IF sf # NoFile /\ new_embeddings # <<>> /\ embedding_path # NoPath
     THEN CASE woutcome = "ok" ->
                 [entries EXCEPT ![embedding_path] = OkEntry(new_embeddings, chunks)]
            [] woutcome = "partial" ->
                 [entries EXCEPT ![embedding_path] = BadEntry]
            [] OTHER -> entries
     ELSE entries

\* np.array(new_embeddings, dtype=np.float32) at vectordb.py:115 raises
\* ValueError when the rows do not all have the same length.
Ragged(new_embeddings) ==
  \E i \in 1..Len(new_embeddings) : new_embeddings[i].d # new_embeddings[1].d

\* vectordb.py:118-122
IndexToUpdate(existing_data, new_embeddings) ==
  IF existing_data.index.null
  THEN IndexFlatL2(new_embeddings[1].d)
  ELSE existing_data.index

\* faiss add(): asserts that the row length equals index.d, then appends
\* the rows in order.
AddFails(index, new_embeddings) == index.d # new_embeddings[1].d

\* An add that drops the vectors the index held.
IndexAddFresh(index, new_embeddings) ==
  [index EXCEPT !.xb = [i \in 1..Len(new_embeddings) |-> new_embeddings[i].v]]

IndexAdd(index, new_embeddings) ==
  [index EXCEPT !.xb = @ \o [i \in 1..Len(new_embeddings) |-> new_embeddings[i].v]]

\* A build that numbers its chunks from 0 whatever the store holds.
StartIdxFromZero(existing_data) == 0

\* vectordb.py:128
StartIdx(existing_data) == Len(existing_data.chunks)

\* vectordb.py:129-131
ExtendChunks(existing_data, chunks) ==
  existing_data.chunks \o
    [i \in 1..Len(chunks) |->
       [text |-> chunks[i].text, page |-> chunks[i].page,
        index |-> StartIdx(existing_data) + (i - 1)]]

\* A file map that keeps the entry of the file built last only.
UpdateFileMapOnly(existing_data, chunks, sf) ==
  IF sf = NoFile THEN existing_data.file_map
  ELSE [f \in {sf} |->
          [hash |-> get_file_hash(sf),
           chunk_indices |->
             [i \in 1..Len(chunks) |-> StartIdx(existing_data) + (i - 1)]]]

\* vectordb.py:133-137
UpdateFileMap(existing_data, chunks, sf) ==
  IF sf = NoFile THEN existing_data.file_map
  ELSE [f \in DOMAIN existing_data.file_map \cup {sf} |->
          IF f = sf
          THEN [hash |-> get_file_hash(sf),
                chunk_indices |->
                  [i \in 1..Len(chunks) |-> StartIdx(existing_data) + (i - 1)]]
          ELSE existing_data.file_map[f]]

\* vectordb.py:140-145: open(..., "wb") then pickle.dump. soutcome is what
\* the write did: "ok", "partial" (the dump failed after open truncated the
\* artifact) or "unwritten" (open failed); both failures raise.
SaveStore(artifact, data, soutcome) ==
  CASE soutcome = "ok" -> OkFile(data)
    [] soutcome = "partial" -> UnreadableFile
    [] OTHER -> artifact

\* The provider calls that raise: none, the first ones, or all of them.
FailSets(n) == {1..m : m \in 0..n}

WriteOutcomes == {"ok", "partial"}

\* The whole of build_vector_store; the result names the artifacts after the
\* call and how the call ended.
\* A build that does not test its input for emptiness.
NoChunksNever(chunks) == FALSE

\* vectordb.py:65: not chunks
NoChunks(chunks) == chunks = <<>>

BuildResult(chunks, sf, fail, woutcome, soutcome) ==
  LET existing_data == ExistingData(store)
      cached == CachedEmbeddings(sf, cache)
      generate == cached = <<>>
      new_embeddings ==
        IF generate
        THEN get_embedding([i \in 1..Len(chunks) |-> chunks[i].text], fail, EmbedDim)
        ELSE cached
      cache1 ==
        IF generate
        THEN CacheAfterWrite(sf, cache, new_embeddings, chunks, woutcome)
        ELSE cache
      calls == IF generate THEN Len(chunks) ELSE 0
      index == IndexToUpdate(existing_data, new_embeddings)
      data == [index |-> IndexAdd(index, new_embeddings),
               chunks |-> ExtendChunks(existing_data, chunks),
               file_map |-> UpdateFileMap(existing_data, chunks, sf)]
      End(st, ca, raised, ret, n) ==
        [store |-> st, cache |-> ca, raised |-> raised, ret |-> ret,
         calls |-> n, hit |-> ~generate]
  IN CASE NoChunks(chunks) -> End(store, cache, FALSE, "none", 0)
       [] ~NoChunks(chunks) /\ generate /\ ~apiKey ->
            End(store, cache, TRUE, "raise", 0)
       [] OTHER ->
            IF new_embeddings = <<>> THEN End(store, cache1, FALSE, "none", calls)
            ELSE IF Ragged(new_embeddings) THEN End(store, cache1, TRUE, "raise", calls)
            ELSE IF AddFails(index, new_embeddings)
                 THEN End(store, cache1, TRUE, "raise", calls)
            ELSE IF soutcome = "ok"
                 THEN End(SaveStore(store, data, soutcome), cache1, FALSE, "index", calls)
            ELSE End(SaveStore(store, data, soutcome), cache1, TRUE, "raise", calls)

build_vector_store(chunks, sf, fail, woutcome, soutcome) ==
  LET r == BuildResult(chunks, sf, fail, woutcome, soutcome)
  IN /\ Len(ExistingData(store).chunks) + Len(chunks) <= MaxStore
     /\ store' = r.store
     /\ cache' = r.cache
     /\ last' = [Outcome("build", r.raised, r.ret, <<>>, r.calls, chunks, sf, r.hit)
                   EXCEPT !.fail = fail]
     /\ UNCHANGED <<files, apiKey>>


\* ------------------------------------------------------- load_vector_store
\* vectordb.py:151-171: [ok |-> FALSE] stands for (None, None).
NoStore == [ok |-> FALSE, index |-> NullIndex, chunks |-> <<>>]

\* A load that skips the integrity check of vectordb.py:164.
LoadResultUnchecked(artifact) ==
  IF artifact.kind = "ok" /\ ~artifact.data.index.null
  THEN [ok |-> TRUE, index |-> artifact.data.index, chunks |-> artifact.data.chunks]
  ELSE NoStore

LoadResult(artifact) ==
  IF artifact.kind = "ok"
     /\ ~artifact.data.index.null
     /\ Len(artifact.data.chunks) = ntotal(artifact.data.index)
  THEN [ok |-> TRUE, index |-> artifact.data.index, chunks |-> artifact.data.chunks]
  ELSE NoStore

load_vector_store ==
  LET r == LoadResult(store)
  IN /\ last' = Outcome("load", FALSE, IF r.ok THEN "pair" ELSE "none",
                        r.chunks, 0, <<>>, NoFile, FALSE)
     /\ UNCHANGED <<store, cache, files, apiKey, indexDim, builders, session, fallback>>

\* --------------------------------------------------- check_file_embeddings
\* vectordb.py:173-197
CheckResult(artifact, f) ==
  /\ artifact.kind = "ok"
  /\ f \in DOMAIN artifact.data.file_map
  /\ get_file_hash(f) = artifact.data.file_map[f].hash

check_file_embeddings(f) ==
  /\ last' = Outcome("check", FALSE, IF CheckResult(store, f) THEN "true" ELSE "false",
                     <<>>, 0, <<>>, f, FALSE)
  /\ UNCHANGED <<store, cache, files, apiKey, indexDim, builders, session, fallback>>

\* ------------------------------------------------------ clear_vector_store
\* vectordb.py:305-311
\* A clear that reports a deletion whatever it found.
ClearResultAlways(artifact) == TRUE

\* vectordb.py:307-310: the artifact exists (and is removed)
ClearResult(artifact) == artifact.kind # "missing"

\* A clear that also empties EMBEDDING_CACHE_DIR.
CacheAfterClearEmptied(entries) == [p \in DOMAIN entries |-> NoEntry]

\* vectordb.py:307-309: os.remove(VECTOR_STORE_FILE) is the only removal
CacheAfterClear(entries) == entries

clear_vector_store ==
  /\ store' = MissingFile
  /\ cache' = CacheAfterClear(cache)
  /\ last' = Outcome("clear", FALSE, IF ClearResult(store) THEN "true" ELSE "false",
                     <<>>, 0, <<>>, NoFile, FALSE)
  /\ UNCHANGED <<files, apiKey>>

\* ---------------------------------------------------------------- retrieve
IsSpace(c) == c = " "

RECURSIVE StripLeft(_)
StripLeft(t) ==
  IF t # <<>> /\ IsSpace(Head(t)) THEN StripLeft(Tail(t)) ELSE t

RECURSIVE WordLen(_)
WordLen(t) ==
  IF t = <<>> \/ IsSpace(Head(t)) THEN 0 ELSE 1 + WordLen(Tail(t))

\* " ".join(text.split())
RECURSIVE JoinSplit(_)
JoinSplit(t) ==
  LET s == StripLeft(t)
      n == WordLen(s)
      rest == StripLeft(SubSeq(s, n + 1, Len(s)))
  IN IF s = <<>> THEN <<>>
     ELSE IF rest = <<>> THEN SubSeq(s, 1, n)
     ELSE SubSeq(s, 1, n) \o <<" ">> \o JoinSplit(rest)

\* str.replace(" " + c, c)
RECURSIVE ReplaceSpaceBefore(_, _)
ReplaceSpaceBefore(t, c) ==
  IF Len(t) < 2 THEN t
  ELSE IF t[1] = " " /\ t[2] = c
       THEN <<c>> \o ReplaceSpaceBefore(SubSeq(t, 3, Len(t)), c)
       ELSE <<t[1]>> \o ReplaceSpaceBefore(Tail(t), c)

\* vectordb.py:214-216
sanitize_text(text) ==
  ReplaceSpaceBefore(ReplaceSpaceBefore(JoinSplit(text), ","), ".")

\* ------------------------------------------------------ float32 arithmetic
\* faiss distances and numpy scalars are IEEE-754 binary32. A value is
\* [m, e] for m * 2^e, with m = 0 or 2^23 <= m < 2^24; results are rounded
\* to nearest, ties to even.
RECURSIVE Pow2(_)
Pow2(k) == IF k = 0 THEN 1 ELSE 2 * Pow2(k - 1)

RECURSIVE BitLen(_)
BitLen(n) == IF n = 0 THEN 0 ELSE 1 + BitLen(n \div 2)

F32Zero == [m |-> 0, e |-> 0]

\* The float32 nearest to n * 2^e, for 0 <= n < 2^31.
RECURSIVE F32(_, _)
F32(n, e) ==
  IF n = 0 THEN F32Zero
  ELSE IF BitLen(n) <= 24
       THEN [m |-> n * Pow2(24 - BitLen(n)), e |-> e - (24 - BitLen(n))]
       ELSE LET k == BitLen(n) - 24
                q == n \div Pow2(k)
                r == n % Pow2(k)
                half == Pow2(k - 1)
            IN IF r > half \/ (r = half /\ q % 2 = 1)
               THEN F32(q + 1, e + k)
               ELSE [m |-> q, e |-> e + k]

F32One == F32(1, 0)

\* a < b, for a, b >= 0
F32Less(a, b) ==
  IF b.m = 0 THEN FALSE
  ELSE IF a.m = 0 THEN TRUE
  ELSE a.e < b.e \/ (a.e = b.e /\ a.m < b.m)

\* 1 + x in float32, for x >= 0
F32Add1(x) ==
  IF x.m = 0 THEN F32One
  ELSE IF x.e >= 7 THEN x
  ELSE IF x.e >= 0 THEN F32(x.m * Pow2(x.e) + 1, 0)
  ELSE IF x.e >= -23 THEN F32(x.m + Pow2(-x.e), x.e)
  ELSE IF x.e < -47 THEN F32One
  ELSE LET k == -x.e - 23
           q == x.m \div Pow2(k)
           r == x.m % Pow2(k)
           half == Pow2(k - 1)
           base == Pow2(23) + q
       IN IF r > half \/ (r = half /\ base % 2 = 1)
          THEN F32(base + 1, -23)
          ELSE F32(base, -23)

\* <<quotient, remainder>> of 2^steps * r by m, by long division
RECURSIVE LongDiv(_, _, _, _)
LongDiv(q, r, m, steps) ==
  IF steps = 0 THEN <<q, r>>
  ELSE IF 2 * r >= m THEN LongDiv(2 * q + 1, 2 * r - m, m, steps - 1)
  ELSE LongDiv(2 * q, 2 * r, m, steps - 1)

\* 1 / x in float32, for x > 0
F32Recip(x) ==
  IF x.m = Pow2(23) THEN [m |-> Pow2(23), e |-> -x.e - 46]
  ELSE LET qr == LongDiv(0, 1, x.m, 47)
       IN IF 2 * qr[2] > x.m \/ (2 * qr[2] = x.m /\ qr[1] % 2 = 1)
          THEN F32(qr[1] + 1, -47 - x.e)
          ELSE F32(qr[1], -47 - x.e)

\* vectordb.py:226: similarity = 1 / (1 + distance)
SimilarityNoReciprocal(distance) == F32Add1(distance)
Similarity(distance) == F32Recip(F32Add1(distance))

\* Squared L2 distance between two vectors of the same dimension, as the
\* float32 that IndexFlatL2.search reports.
Distance(qv, xv) == F32((qv - xv) * (qv - xv), 0)

\* IndexFlatL2.search: the ordinals (from 0) of the k nearest stored
\* vectors, nearest first, equal distances by ordinal.
SearchLastFirst(xb, qv, k, taken) ==
  [i \in 1..k |-> Len(xb) - i]
RECURSIVE Nearest(_, _, _, _)
Nearest(xb, qv, k, taken) ==
  IF k = 0 \/ taken = 1..Len(xb) THEN <<>>
  ELSE LET free == (1..Len(xb)) \ taken
           best == CHOOSE i \in free :
                     \A j \in free :
                       \/ F32Less(Distance(qv, xb[i]), Distance(qv, xb[j]))
                       \/ ~F32Less(Distance(qv, xb[j]), Distance(qv, xb[i])) /\ i <= j
       IN <<best - 1>> \o Nearest(xb, qv, k - 1, taken \cup {best})

Min(a, b) == IF a <= b THEN a ELSE b

\* threshold=None
NoThreshold == [null |-> TRUE, value |-> F32Zero]

Threshold(value) == [null |-> FALSE, value |-> value]

\* vectordb.py:228: threshold is None or similarity > threshold
AboveThresholdOrEqual(similarity, threshold) ==
  threshold.null \/ ~F32Less(similarity, threshold.value)
AboveThreshold(similarity, threshold) ==
  threshold.null \/ F32Less(threshold.value, similarity)

\* vectordb.py:218-230: the hit for ordinal idx, with sanitized text and the
\* similarity.
Hit(chunks, xb, qv, idx) ==
  [text |-> sanitize_text(chunks[idx + 1].text),
   page |-> chunks[idx + 1].page,
   index |-> chunks[idx + 1].index,
   similarity |-> Similarity(Distance(qv, xb[idx + 1]))]

RECURSIVE FilterHits(_, _, _, _, _)
FilterHits(chunks, xb, qv, I, threshold) ==
  IF I = <<>> THEN <<>>
  ELSE LET idx == Head(I)
           rest == FilterHits(chunks, xb, qv, Tail(I), threshold)
       IN IF idx < Len(chunks)
             /\ AboveThreshold(Similarity(Distance(qv, xb[idx + 1])), threshold)
          THEN <<Hit(chunks, xb, qv, idx)>> \o rest
          ELSE rest

\* vectordb.py:200-236. qfail: the provider call for the query raises and
\* get_embedding substitutes the zero vector.
RetrieveResult(artifact, query, qfail, top_k, threshold) ==
  LET r == LoadResult(artifact)
      q_emb == get_embedding(<<query>>, IF qfail THEN {1} ELSE {}, EmbedDim)[1]
  IN IF ~r.ok \/ r.chunks = <<>> THEN <<>>
     ELSE IF ~apiKey THEN <<>>
     ELSE IF q_emb.d # r.index.d THEN <<>>
     ELSE IF Min(top_k, Len(r.chunks)) <= 0 THEN <<>>
     ELSE FilterHits(r.chunks, r.index.xb, q_emb.v,
                     Nearest(r.index.xb, q_emb.v, Min(top_k, Len(r.chunks)), {}),
                     threshold)

TopKs == {1, TOP_K}

\* None, 1.0 and 0.5 (config.py:16, SIMILARITY_THRESHOLD)
Thresholds == {NoThreshold, Threshold(F32One), Threshold(F32(1, -1))}

\* A retrieve that saves the chunks it has rewritten.
StoreAfterRetrieveSaved(artifact, results) ==
  [artifact EXCEPT !.data.chunks =
     [i \in 1..Len(@) |->
        IF \E j \in 1..Len(results) : results[j].index = @[i].index
        THEN LET j == CHOOSE j \in 1..Len(results) : results[j].index = @[i].index
             IN results[j]
        ELSE @[i]]]

\* vectordb.py:222-229: the text and the similarity are assigned to the
\* chunks of the list load_vector_store has just unpickled; nothing is
\* written back to the artifact.
StoreAfterRetrieve(artifact, results) == artifact

retrieve(query, qfail, top_k, threshold) ==
  /\ last' = [Outcome("retrieve", FALSE, "list",
                      RetrieveResult(store, query, qfail, top_k, threshold),
                      IF LoadResult(store).ok /\ LoadResult(store).chunks # <<>> /\ apiKey
                      THEN 1 ELSE 0,
                      <<>>, NoFile, FALSE)
                EXCEPT !.fail = IF qfail THEN {1} ELSE {},
                       !.args = [NoArgs EXCEPT !.query = query, !.top_k = top_k,
                                               !.threshold = threshold]]
  /\ store' = StoreAfterRetrieve(store,
                                 RetrieveResult(store, query, qfail, top_k, threshold))
  /\ UNCHANGED <<cache, files, apiKey, indexDim, builders, session, fallback>>

\* -------------------------------------------------------- retrieve_by_page
\* A page lookup that does not look at the page.
RetrieveByPageUnfiltered(artifact, page_num, top_k) ==
  SubSeq(LoadResult(artifact).chunks, 1, Min(top_k, Len(LoadResult(artifact).chunks)))

\* vectordb.py:239-247
RetrieveByPageResult(artifact, page_num, top_k) ==
  LET r == LoadResult(artifact)
      page_chunks == SelectSeq(r.chunks, LAMBDA c : c.page = page_num)
  IN SubSeq(page_chunks, 1, Min(top_k, Len(page_chunks)))

retrieve_by_page(page_num, top_k) ==
  /\ last' = [Outcome("retrieve_by_page", FALSE, "list",
                      RetrieveByPageResult(store, page_num, top_k),
                      0, <<>>, NoFile, FALSE)
                EXCEPT !.args = [NoArgs EXCEPT !.page_num = page_num, !.top_k = top_k]]
  /\ UNCHANGED <<store, cache, files, apiKey, indexDim, builders, session, fallback>>

\* ------------------------------------------------------- search_by_keyword
\* A comparison that keeps the letter case.
LowerCharSame(c) == c

\* str.lower()
LowerChar(c) == CASE c = "A" -> "a" [] c = "I" -> "i" [] OTHER -> c

Lower(t) == [i \in 1..Len(t) |-> LowerChar(t[i])]

\* needle in hay
Contains(hay, needle) ==
  \E i \in 1..(Len(hay) - Len(needle) + 1) :
    SubSeq(hay, i, i + Len(needle) - 1) = needle

\* vectordb.py:250-265
SearchByKeywordResult(artifact, keyword) ==
  LET r == LoadResult(artifact)
  IN SelectSeq(r.chunks, LAMBDA c : Contains(Lower(c.text), Lower(keyword)))

Keywords == { <<"a", "i">>, <<"I">> }

\* Keywords in either letter case, one that is in no text, and the empty one.
QueryKeywords == Keywords \cup { <<"A", "I">>, <<"i">>, <<",">>, <<>> }

search_by_keyword(keyword) ==
  /\ last' = [Outcome("search_by_keyword", FALSE, "list",
                      SearchByKeywordResult(store, keyword),
                      0, <<>>, NoFile, FALSE)
                EXCEPT !.args = [NoArgs EXCEPT !.keyword = keyword]]
  /\ UNCHANGED <<store, cache, files, apiKey, indexDim, builders, session, fallback>>

\* ----------------------------------------------------------- hybrid_search
\* vectordb.py:268-281; keyword <<>> stands for None (and for "").
\* A hybrid search that filters only the top_k nearest chunks.
HybridSearchNarrow(artifact, query, qfail, keyword, top_k) ==
  LET semantic_results == RetrieveResult(artifact, query, qfail, top_k, NoThreshold)
  IN IF keyword # <<>>
     THEN SelectSeq(semantic_results, LAMBDA r : Contains(Lower(r.text), Lower(keyword)))
     ELSE semantic_results

HybridSearchResult(artifact, query, qfail, keyword, top_k) ==
  LET semantic_results == RetrieveResult(artifact, query, qfail, top_k * 2, NoThreshold)
      filtered ==
        IF keyword # <<>>
        THEN SelectSeq(semantic_results, LAMBDA r : Contains(Lower(r.text), Lower(keyword)))
        ELSE semantic_results
  IN SubSeq(filtered, 1, Min(top_k, Len(filtered)))

hybrid_search(query, qfail, keyword, top_k) ==
  /\ last' = [Outcome("hybrid_search", FALSE, "list",
                      HybridSearchResult(store, query, qfail, keyword, top_k),
                      IF LoadResult(store).ok /\ LoadResult(store).chunks # <<>> /\ apiKey
                      THEN 1 ELSE 0,
                      <<>>, NoFile, FALSE)
                EXCEPT !.fail = IF qfail THEN {1} ELSE {},
                       !.args = [NoArgs EXCEPT !.query = query, !.keyword = keyword,
                                               !.top_k = top_k]]
  /\ store' = StoreAfterRetrieve(store,
                                 RetrieveResult(store, query, qfail, top_k * 2, NoThreshold))
  /\ UNCHANGED <<cache, files, apiKey, indexDim, builders, session, fallback>>

\* ------------------------------------------------------------- environment
\* app.py:177-181: an upload writes the bytes of the source file; the file
\* may also become unreadable.
WriteSourceFile(f, c) ==
  /\ files[f] # c
  /\ files' = [files EXCEPT ![f] = c]
  /\ last' = Outcome("write_file", FALSE, "none", <<>>, 0, <<>>, f, FALSE)
  /\ UNCHANGED <<store, cache, apiKey, indexDim, builders, session, fallback>>

Init ==
  /\ store = MissingFile
  /\ cache = [p \in CachePaths |-> NoEntry]
  /\ files \in [Files -> Contents \cup {Unreadable}]
  /\ apiKey \in BOOLEAN
  /\ last = Outcome("init", FALSE, "none", <<>>, 0, <<>>, NoFile, FALSE)
  /\ indexDim = 0
  /\ builders = NoBuilders
  /\ session = NoSession
  /\ fallback = NoFallback

\* The operations that write an artifact or a source file.
NextStore ==
  \/ \E chunks \in ChunkLists, sf \in Files \cup {NoFile},
        woutcome \in WriteOutcomes, soutcome \in WriteOutcomes :
       \E fail \in FailSets(Len(chunks)) :
         build_vector_store(chunks, sf, fail, woutcome, soutcome) /\ UNCHANGED <<indexDim, builders, session, fallback>>
  \/ clear_vector_store /\ UNCHANGED <<indexDim, builders, session, fallback>>
  \/ \E f \in Files, c \in Contents \cup {Unreadable} : WriteSourceFile(f, c)

\* The operations that only read.
NextRead ==
  \/ load_vector_store
  \/ \E f \in Files : check_file_embeddings(f)
  \/ \E query \in Queries, qfail \in BOOLEAN : retrieve(query, qfail, TOP_K, NoThreshold)
  \/ \E page_num \in {1} : retrieve_by_page(page_num, TOP_K)
  \/ \E keyword \in Keywords : search_by_keyword(keyword)
  \/ \E keyword \in Keywords \cup {<<>>} :
       hybrid_search(<<"a", "i">>, FALSE, keyword, 1)

Next == NextStore \/ NextRead

Spec == Init /\ [][Next]_vars

\* The persisted state under the writing operations alone.
SpecStore == Init /\ [][NextStore]_vars

\* ------------------------------------------------- dimension history
\* The writing operations, with the dimension of the index persisted last
\* recorded in indexDim: set by a build that returns an index, reset by a
\* clear.
TrackDim ==
  /\ indexDim' = CASE last'.op = "clear" -> 0
                   [] last'.op = "build" /\ last'.ret = "index" -> store'.data.index.d
                   [] OTHER -> indexDim
  /\ UNCHANGED <<builders, session, fallback>>

NextDim ==
  \/ \E chunks \in ChunkLists, sf \in Files \cup {NoFile},
        woutcome \in WriteOutcomes, soutcome \in WriteOutcomes :
       \E fail \in FailSets(Len(chunks)) :
         build_vector_store(chunks, sf, fail, woutcome, soutcome) /\ TrackDim
  \/ clear_vector_store /\ TrackDim
  \/ \E f \in Files, c \in Contents \cup {Unreadable} : WriteSourceFile(f, c)

SpecDim == Init /\ [][NextDim]_vars

\* ------------------------------------------------- two source files
\* Builds for two source files that share a basename, so that the file map
\* holds more than one entry and one cache path serves both files.
InitFiles ==
  /\ store = MissingFile
  /\ cache = [p \in CachePaths |-> NoEntry]
  /\ files \in {[f \in AllFiles |-> IF f = OtherFile THEN c ELSE 1] :
                  c \in Contents \cup {Unreadable}}
  /\ apiKey = TRUE
  /\ last = Outcome("init", FALSE, "none", <<>>, 0, <<>>, NoFile, FALSE)
  /\ indexDim = 0
  /\ builders = NoBuilders
  /\ session = NoSession
  /\ fallback = NoFallback

NextFiles ==
  \/ \E chunks \in ChunkLists, sf \in AllFiles \cup {NoFile},
        woutcome \in WriteOutcomes, soutcome \in WriteOutcomes :
       \E fail \in FailSets(Len(chunks)) :
         build_vector_store(chunks, sf, fail, woutcome, soutcome) /\ UNCHANGED <<indexDim, builders, session, fallback>>
  \/ clear_vector_store /\ UNCHANGED <<indexDim, builders, session, fallback>>

SpecFiles == InitFiles /\ [][NextFiles]_vars

\* ------------------------------------------- load_vector_store on any file
\* load_vector_store is a function of the bytes at VECTOR_STORE_FILE: SpecLoad
\* applies it to every artifact of a bounded space, including records that
\* build_vector_store never writes (a null index).
VectorVals == {0} \cup {EmbedVal(t) : t \in Texts}

RECURSIVE ValSeqs(_)
ValSeqs(n) ==
  IF n = 0 THEN {<<>>}
  ELSE LET shorter == ValSeqs(n - 1)
       IN shorter \cup {Append(s, x) : s \in {t \in shorter : Len(t) = n - 1},
                                         x \in VectorVals}

Indexes ==
  {NullIndex} \cup
  {[null |-> FALSE, d |-> d, xb |-> xb] : d \in {ZeroDim, EmbedDim}, xb \in ValSeqs(MaxChunks)}

Artifacts ==
  {MissingFile, UnreadableFile} \cup
  {OkFile([index |-> ix, chunks |-> ExtendChunks(EmptyData, cs), file_map |-> EmptyMap]) :
     ix \in Indexes, cs \in ChunkLists}

\* The dimension of the index an artifact holds, 0 when it holds none.
PersistedDim(artifact) ==
  IF artifact.kind = "ok" /\ ~artifact.data.index.null THEN artifact.data.index.d ELSE 0

InitLoad ==
  /\ store \in Artifacts
  /\ cache = [p \in CachePaths |-> NoEntry]
  /\ files = [f \in Files |-> 1]
  /\ apiKey = TRUE
  /\ last = Outcome("init", FALSE, "none", <<>>, 0, <<>>, NoFile, FALSE)
  /\ indexDim = 0
  /\ builders = NoBuilders
  /\ session = NoSession
  /\ fallback = NoFallback

NextLoad == load_vector_store

SpecLoad == InitLoad /\ [][NextLoad]_vars

\* ------------------------------------------------- the read operations alone
\* The read operations are functions of the persisted store, the API key and
\* their arguments. The stores: every text on every page, indexed with the
\* provider's vectors or, all items having failed, with zero vectors; and the
\* artifacts of SpecLoad.
QueryChunkLists ==
  UNION {[1..n -> [text : Texts, page : Pages]] : n \in 0..MaxChunks}

BuiltArtifact(cs, zero) ==
  OkFile([index |-> [null |-> FALSE,
                     d |-> IF zero THEN ZeroDim ELSE EmbedDim,
                     xb |-> [i \in 1..Len(cs) |-> IF zero THEN 0 ELSE EmbedVal(cs[i].text)]],
          chunks |-> ExtendChunks(EmptyData, cs),
          file_map |-> EmptyMap])

QueryArtifacts ==
  Artifacts \cup {BuiltArtifact(cs, zero) : cs \in QueryChunkLists, zero \in BOOLEAN}

\* No keyword, a keyword in the other letter case than a stored text, and a
\* keyword that is in a stored text only once its whitespace is normalized.
HybridKeywords == { <<>>, <<"a", "i">>, <<"i", ".">> }

\* A query that is the text of a stored chunk, and one that is not.
QueryTexts == { <<"A", "I">>, <<"a", "i">> }

\* The cache a build of the store from "docs/doc.pdf" leaves: one entry
\* with the vectors and chunks of the store, none for an empty store.
QueryCache(artifact) ==
  [p \in CachePaths |->
     IF artifact.kind = "ok" /\ artifact.data.index.xb # <<>>
        /\ p = <<Basename("docs/doc.pdf"), MD5(1)>>
     THEN OkEntry([i \in 1..Len(artifact.data.index.xb) |->
                     [d |-> artifact.data.index.d, v |-> artifact.data.index.xb[i]]],
                  [i \in 1..Len(artifact.data.chunks) |->
                     [text |-> artifact.data.chunks[i].text,
                      page |-> artifact.data.chunks[i].page]])
     ELSE NoEntry]

InitQuery ==
  /\ store \in QueryArtifacts
  /\ cache = QueryCache(store)
  /\ files = [f \in Files |-> 1]
  /\ apiKey \in BOOLEAN
  /\ last = Outcome("init", FALSE, "none", <<>>, 0, <<>>, NoFile, FALSE)
  /\ indexDim = 0
  /\ builders = NoBuilders
  /\ session = NoSession
  /\ fallback = NoFallback

NextQuery ==
  \/ \E query \in QueryTexts, top_k \in TopKs, threshold \in Thresholds :
       retrieve(query, FALSE, top_k, threshold)
  \/ \E query \in QueryTexts : retrieve(query, TRUE, TOP_K, NoThreshold)
  \/ \E page_num \in Pages, top_k \in TopKs : retrieve_by_page(page_num, top_k)
  \/ \E keyword \in QueryKeywords : search_by_keyword(keyword)
  \/ \E keyword \in HybridKeywords, top_k \in TopKs :
       hybrid_search(<<"a", "i">>, FALSE, keyword, top_k)
  \/ load_vector_store
  \/ \E f \in Files : check_file_embeddings(f)

SpecQuery == InitQuery /\ [][NextQuery]_vars

\* ------------------------------------------------- the similarity alone
\* float32 distances: 0, powers of two around the rounding step of 1 + d,
\* small and large values, and neighbours just below 2^25.
DistanceSamples ==
  {F32Zero, F32(1, -60), F32(1, -26), F32(1, -25), F32(1, -24), F32(8388609, -47),
   F32(1, -23), F32(1, -1), F32(3, -2), F32(1, 0), F32(3, 0), F32(324, 0),
   F32(33554426, 0), F32(33554428, 0), F32(1, 40)}

InitSimilarity ==
  /\ store = MissingFile
  /\ cache = [p \in CachePaths |-> NoEntry]
  /\ files = [f \in Files |-> 1]
  /\ apiKey = TRUE
  /\ \E d1 \in DistanceSamples, d2 \in DistanceSamples :
       last = Outcome("distances", FALSE, "none", <<d1, d2>>, 0, <<>>, NoFile, FALSE)
  /\ indexDim = 0
  /\ builders = NoBuilders
  /\ session = NoSession
  /\ fallback = NoFallback

\* vectordb.py:226 applied to each distance of a search result.
ConvertDistances ==
  /\ last.op = "distances"
  /\ last' = Outcome("similarity", FALSE, "list",
                     [i \in 1..Len(last.out) |->
                        [distance |-> last.out[i], similarity |-> Similarity(last.out[i])]],
                     0, <<>>, NoFile, FALSE)
  /\ UNCHANGED <<store, cache, files, apiKey, indexDim, builders, session, fallback>>

NextSimilarity == ConvertDistances

SpecSimilarity == InitSimilarity /\ [][NextSimilarity]_vars

\* ------------------------------------------------------------------ claims
Built == last.op = "build" /\ last.ret = "index"

Consistent(artifact) ==
  /\ artifact.kind = "ok"
  /\ ~artifact.data.index.null
  /\ Len(artifact.data.chunks) = ntotal(artifact.data.index)

\* C1: whenever a build has returned a non-null index, the persisted store
\* has as many chunks as its index has vectors, also when the embeddings came
\* from a cache entry of another length than the chunks argument.
C1_CountsAgreeAfterBuild == Built => Consistent(store)

\* C2: after every successful build the vector at ordinal i of the index is
\* the embedding of the text of the chunk at position i, for every i (the
\* provider's zero vector counts as the embedding of an item it failed on).
C2_PositionalCorrespondence ==
  Built =>
    \A i \in 1..Len(store.data.chunks) :
      /\ i <= ntotal(store.data.index)
      /\ store.data.index.xb[i] \in {EmbedVal(store.data.chunks[i].text), ZeroVec.v}

\* C3: every chunk of the persisted chunk sequence has index equal to its
\* position (counted from 0).
C3_IndexIsPosition ==
  store.kind = "ok" =>
    \A i \in 1..Len(store.data.chunks) : store.data.chunks[i].index = i - 1

\* C3 witness: a second build has appended to a store that held chunks.
C3_Witness ==
  /\ Built
  /\ last.chunks # <<>>
  /\ Len(store.data.chunks) > Len(last.chunks)

\* C4: load_vector_store returns (null, null) when the artifact is missing,
\* unreadable, has a null index or has a chunk count different from the index
\* count; a non-null pair is the stored index and chunks, of equal counts.
C4_LoadIntegrityGate ==
  last.op = "load" =>
    /\ ~last.raised
    /\ (\/ store.kind # "ok"
        \/ store.data.index.null
        \/ Len(store.data.chunks) # ntotal(store.data.index))
         => (last.ret = "none" /\ last.out = <<>>)
    /\ last.ret # "none" =>
         /\ last.ret = "pair"
         /\ Consistent(store)
         /\ last.out = store.data.chunks

\* C4 witness: a load of a readable artifact whose counts differ.
C4_Witness ==
  /\ last.op = "load"
  /\ last.ret = "none"
  /\ store.kind = "ok"
  /\ ~store.data.index.null
  /\ Len(store.data.chunks) # ntotal(store.data.index)

\* C5: a build is atomic with respect to the persisted store: after the call
\* the artifact is the complete updated store (and the call returned it) or
\* exactly the artifact persisted before the call.
C5_BuildAtomic ==
  [][last'.op = "build" => (store' = store \/ (Consistent(store') /\ Built'))]_vars

\* C6: with the API key missing and no cache hit, a build of a non-empty
\* chunk list returns null and leaves the persisted store unchanged.
C6_NoCredentialsReturnsNull ==
  [][(last'.op = "build" /\ ~apiKey /\ ~last'.hit /\ last'.chunks # <<>>)
       => (last'.ret = "none" /\ ~last'.raised /\ store' = store)]_vars

\* C7: when every item of the batch fails to embed and there is no cache
\* hit, the build returns null and appends nothing.
C7_AllItemsFailReturnsNull ==
  [][(/\ last'.op = "build" /\ apiKey /\ ~last'.hit /\ last'.chunks # <<>>
      /\ last'.fail = 1..Len(last'.chunks))
       => (last'.ret = "none" /\ store' = store)]_vars

\* C8: when some but not all items of the batch fail to embed, the build
\* still succeeds and appends exactly len(chunks) vectors and chunks.
C8_PartialFailureMasked ==
  [][(/\ last'.op = "build" /\ apiKey /\ ~last'.hit
      /\ last'.fail # {} /\ last'.fail # 1..Len(last'.chunks))
       => /\ Built'
          /\ Len(ExistingData(store').chunks) =
               Len(ExistingData(store).chunks) + Len(last'.chunks)
          /\ ntotal(ExistingData(store').index) =
               ntotal(ExistingData(store).index) + Len(last'.chunks)]_vars

\* C9: no public operation raises to its caller.
C9_NeverRaises == ~last.raised

\* C10: if embedding the query fails, retrieve returns the empty sequence
\* for every non-empty store.
C10_FailedQueryRetrievesNothing ==
  (/\ last.op = "retrieve" /\ last.fail = {1}
   /\ LoadResult(store).ok /\ LoadResult(store).chunks # <<>>)
    => last.out = <<>>


\* C11: after a successful build_vector_store(chunks, source_file) that
\* computed embeddings, a second build with the same source_file and unchanged
\* bytes does not call the embedding provider and appends the same vectors and
\* chunks again (the chunk count grows by len(chunks)).
SecondBuild ==
  /\ Built /\ ~last.hit /\ last.src # NoFile
  /\ last'.op = "build" /\ last'.src = last.src /\ last'.chunks = last.chunks
  /\ files' = files

AppendedAgain ==
  LET n == Len(ExistingData(store).chunks)
      m == Len(last.chunks)
      xb == store.data.index.xb
      xb2 == store'.data.index.xb
  IN /\ store'.kind = "ok"
     /\ Len(store'.data.chunks) = n + m
     /\ Len(xb2) = Len(xb) + m
     /\ \A i \in 1..m :
          /\ xb2[Len(xb) + i] = xb[Len(xb) - m + i]
          /\ store'.data.chunks[n + i].text = last.chunks[i].text
          /\ store'.data.chunks[n + i].page = last.chunks[i].page

CacheWritten ==
  /\ get_embedding_path(last.src) # NoPath
  /\ cache[get_embedding_path(last.src)].kind = "ok"

Indexed(f) ==
  /\ store.kind = "ok"
  /\ f \in DOMAIN store.data.file_map
  /\ store.data.file_map[f].hash = get_file_hash(f)

C12_UpToDateUntilChangedOrCleared ==
  [][/\ \A f \in Files :
          last'.op = "check" /\ last'.src = f => (last'.ret = "true" <=> Indexed(f)')
     /\ \A f \in Files :
          Built' /\ last'.src = f => CheckResult(store, f)'
     /\ \A f \in Files :
          CheckResult(store, f) /\ files' = files /\ last'.op # "clear"
            => CheckResult(store, f)'
     /\ \A f \in Files :
          CheckResult(store, f) /\ files'[f] # files[f] => ~CheckResult(store, f)']_vars


\* C13: clear_vector_store returns true exactly when a persisted artifact
\* existed and was deleted; a second consecutive clear returns false; after a
\* clear, load_vector_store returns (null, null) until the next successful
\* build.
C13_ClearThenNoStore ==
  [][/\ last'.op = "clear" =>
          /\ last'.ret = "true" <=> store.kind # "missing"
          /\ store'.kind = "missing"
     /\ last.op = "clear" /\ last'.op = "clear" => last'.ret = "false"
     /\ last'.op = "load" /\ store.kind = "missing" => last'.ret = "none"
     /\ store.kind = "missing" /\ ~Built' => ~LoadResult(store').ok]_vars

C13_Witness ==
  /\ last.op = "clear" /\ last.ret = "true"
  /\ store.kind = "missing" /\ ~LoadResult(store).ok

\* The persisted state under the writing operations and load_vector_store.
NextStoreLoad == NextStore \/ load_vector_store

SpecStoreLoad == Init /\ [][NextStoreLoad]_vars


\* C14: after a successful build of m chunks onto a store that loads with n
\* chunks (n = 0 when there is no store), load_vector_store returns a non-null
\* index and exactly n + m chunks, whose last m entries are the built chunks
\* in argument order.
C14_LoadAfterBuild ==
  [][Built' /\ (LoadResult(store).ok \/ store.kind = "missing") =>
       LET n == Len(LoadResult(store).chunks)
           m == Len(last'.chunks)
           r == LoadResult(store')
       IN /\ r.ok /\ ~r.index.null
          /\ Len(r.chunks) = n + m
          /\ \A i \in 1..m :
               /\ r.chunks[n + i].text = last'.chunks[i].text
               /\ r.chunks[n + i].page = last'.chunks[i].page]_vars

\* C15: build_vector_store with an empty chunk sequence returns null and
\* changes nothing: the persisted store, the file_map and every cache entry
\* are unchanged and the embedding provider is not called.
C15_EmptyBuildChangesNothing ==
  [][last'.op = "build" /\ last'.chunks = <<>> =>
       /\ last'.ret = "none" /\ ~last'.raised
       /\ last'.calls = 0
       /\ store' = store /\ cache' = cache /\ files' = files]_vars

C15_Witness ==
  /\ last.op = "build" /\ last.chunks = <<>> /\ last.ret = "none"
  /\ last.src # NoFile
  /\ store.kind = "ok" /\ last.src \in DOMAIN store.data.file_map
  /\ get_embedding_path(last.src) # NoPath
  /\ cache[get_embedding_path(last.src)].kind = "ok"


\* The vector of the query of the last retrieve, and the distance from it of
\* the stored vector at a 0-based position.
QueryVector ==
  get_embedding(<<last.args.query>>, last.fail, EmbedDim)[1]

DistanceAt(position) ==
  Distance(QueryVector.v, store.data.index.xb[position + 1])

\* The search of the last retrieve ran: a store loads with chunks, the API
\* key is there and the query vector has the dimension of the index.
Searched ==
  /\ LoadResult(store).ok /\ LoadResult(store).chunks # <<>>
  /\ apiKey
  /\ QueryVector.d = store.data.index.d

\* C16: every chunk returned by retrieve with a non-null threshold has a
\* similarity strictly greater than the threshold; a hit whose similarity
\* equals the threshold is excluded; with a null threshold no hit is excluded.
C16_ThresholdStrict ==
  last.op = "retrieve" =>
    LET threshold == last.args.threshold
        k == Min(last.args.top_k, Len(LoadResult(store).chunks))
    IN /\ ~threshold.null =>
            \A i \in 1..Len(last.out) : F32Less(threshold.value, last.out[i].similarity)
       /\ ~threshold.null /\ Searched =>
            \A position \in 0..(Len(store.data.chunks) - 1) :
              Similarity(DistanceAt(position)) = threshold.value =>
                \A i \in 1..Len(last.out) : last.out[i].index # position
       /\ threshold.null /\ Searched => Len(last.out) = k

C16_Witness ==
  /\ last.op = "retrieve" /\ Searched
  /\ last.args.threshold = Threshold(F32One)
  /\ \E position \in 0..(Len(store.data.chunks) - 1) :
       Similarity(DistanceAt(position)) = F32One
  /\ last.out = <<>>

\* C17: retrieve returns a subsequence of the min(top_k, total_chunks)
\* nearest stored chunks in nearest-first order: at most min(top_k, total)
\* results, no chunk position twice, distances non-decreasing.
C17_NearestFirst ==
  last.op = "retrieve" =>
    LET n == Len(LoadResult(store).chunks)
        k == Min(last.args.top_k, n)
        out == last.out
    IN /\ Len(out) <= k
       /\ \A i, j \in 1..Len(out) :
            i < j => /\ out[i].index # out[j].index
                     /\ ~F32Less(DistanceAt(out[j].index), DistanceAt(out[i].index))
       /\ \A i \in 1..Len(out) :
            /\ out[i].index \in 0..(n - 1)
            /\ Cardinality({position \in 0..(n - 1) :
                              F32Less(DistanceAt(position), DistanceAt(out[i].index))}) < k

C17_Witness ==
  /\ last.op = "retrieve" /\ Searched
  /\ Len(last.out) = 2
  /\ last.out[1].index = 1 /\ last.out[2].index = 0
  /\ F32Less(DistanceAt(1), DistanceAt(0))


\* C18: the similarity s = 1 / (1 + d) of a hit at L2 distance d >= 0 lies
\* in (0, 1], is 1 exactly when d = 0, and is strictly decreasing in d
\* (d1 < d2 implies s1 > s2).
C18_SimilarityStrictlyDecreasing ==
  last.op = "similarity" =>
    \A i, j \in 1..Len(last.out) :
      LET d1 == last.out[i].distance
          s1 == last.out[i].similarity
          d2 == last.out[j].distance
          s2 == last.out[j].similarity
      IN /\ F32Less(F32Zero, s1) /\ ~F32Less(F32One, s1)
         /\ s1 = F32One <=> d1 = F32Zero
         /\ F32Less(d1, d2) => F32Less(s2, s1)

\* C18 as amended: the similarity computed in float32 lies in (0, 1], is 1
\* when d = 0, and is non-increasing in d (d1 < d2 implies s1 >= s2).
C18_SimilarityNonIncreasing ==
  last.op = "similarity" =>
    \A i, j \in 1..Len(last.out) :
      LET d1 == last.out[i].distance
          s1 == last.out[i].similarity
          d2 == last.out[j].distance
          s2 == last.out[j].similarity
      IN /\ F32Less(F32Zero, s1) /\ ~F32Less(F32One, s1)
         /\ d1 = F32Zero => s1 = F32One
         /\ F32Less(d1, d2) => ~F32Less(s1, s2)

C18_Witness ==
  /\ last.op = "similarity"
  /\ last.out[1].distance = F32Zero /\ last.out[1].similarity = F32One
  /\ last.out[2].distance = F32(3, 0) /\ last.out[2].similarity = F32(1, -2)

SameLetter(x, y) ==
  \/ x = y
  \/ {x, y} = {"a", "A"}
  \/ {x, y} = {"i", "I"}

\* keyword occurs in text, letter case aside
Occurs(keyword, text) ==
  \E o \in 0..(Len(text) - Len(keyword)) :
    \A j \in 1..Len(keyword) : SameLetter(text[o + j], keyword[j])

\* C20: search_by_keyword(keyword) returns exactly the stored chunks whose
\* text contains keyword case-insensitively, all of them, in store order; the
\* keyword in another letter case returns the same chunks; a keyword in no
\* chunk returns the empty sequence.
C20_KeywordCaseInsensitive ==
  last.op = "search_by_keyword" =>
    LET chunks == LoadResult(store).chunks
        keyword == last.args.keyword
        out == last.out
    IN /\ \A i \in 1..Len(out) :
            /\ out[i].index + 1 \in 1..Len(chunks)
            /\ out[i] = chunks[out[i].index + 1]
            /\ Occurs(keyword, out[i].text)
       /\ \A p \in 1..Len(chunks) :
            Occurs(keyword, chunks[p].text) => \E i \in 1..Len(out) : out[i].index + 1 = p
       /\ \A i, j \in 1..Len(out) : i < j => out[i].index < out[j].index
       /\ \A other \in QueryKeywords :
            /\ Len(other) = Len(keyword)
            /\ \A j \in 1..Len(keyword) : SameLetter(other[j], keyword[j])
            => SearchByKeywordResult(store, other) = out

C20_Witness ==
  /\ last.op = "search_by_keyword" /\ last.args.keyword = <<"a", "i">>
  /\ LoadResult(store).ok /\ Len(store.data.chunks) = 2
  /\ store.data.chunks[1].text = <<"A", "I">>
  /\ last.out = store.data.chunks


\* The chunks retrieve(query, top_k = 2 * top_k) returns for the query of the
\* last hybrid_search.
Candidates ==
  RetrieveResult(store, last.args.query, last.fail # {}, 2 * last.args.top_k, NoThreshold)

\* C21: hybrid_search(query, keyword, top_k) returns the first top_k elements,
\* in order, of retrieve(query, top_k = 2 * top_k) restricted to the chunks
\* whose text contains keyword case-insensitively; at most top_k chunks, none
\* when no candidate contains the keyword, and with no keyword the same
\* sequence as retrieve(query, top_k).
C21_HybridFiltersCandidates ==
  last.op = "hybrid_search" =>
    LET keyword == last.args.keyword
        top_k == last.args.top_k
        kept == {i \in 1..Len(Candidates) : Occurs(keyword, Candidates[i].text)}
        out == last.out
    IN /\ Len(out) = Min(top_k, Cardinality(kept))
       /\ \A j \in 1..Len(out) :
            \E i \in kept :
              /\ out[j] = Candidates[i]
              /\ Cardinality({h \in kept : h < i}) = j - 1
       /\ keyword = <<>> =>
            out = RetrieveResult(store, last.args.query, last.fail # {}, top_k, NoThreshold)

C21_Witness ==
  /\ last.op = "hybrid_search" /\ last.args.top_k = 1
  /\ last.args.keyword = <<"i", ".">>
  /\ Len(Candidates) = 2
  /\ last.out = <<Candidates[2]>>

\* C22: every chunk returned by hybrid_search(query, keyword, top_k) has the
\* chunk index of some chunk returned by search_by_keyword(keyword) on the
\* same store, for every stored text and keyword (texts with repeated
\* whitespace or a space before punctuation included).
C22_HybridWithinKeywordSearch ==
  last.op = "hybrid_search" /\ last.args.keyword # <<>> =>
    \A j \in 1..Len(last.out) :
      \E i \in 1..Len(SearchByKeywordResult(store, last.args.keyword)) :
        SearchByKeywordResult(store, last.args.keyword)[i].index = last.out[j].index


ReadOps ==
  {"load", "check", "retrieve", "retrieve_by_page", "search_by_keyword", "hybrid_search"}

\* C23: no retrieval operation (load_vector_store, retrieve, retrieve_by_page,
\* search_by_keyword, hybrid_search, check_file_embeddings) changes the
\* persisted store or any embedding cache entry: the similarity and the
\* normalized text of retrieve are in the returned chunks only, not in the
\* store a later call loads.
C23_ReadsChangeNothing ==
  [][last'.op \in ReadOps =>
       /\ store' = store
       /\ cache' = cache
       /\ \A i \in 1..Len(LoadResult(store').chunks) :
            /\ "similarity" \notin DOMAIN LoadResult(store').chunks[i]
            /\ LoadResult(store').chunks[i].text = LoadResult(store).chunks[i].text]_vars

C23_Witness ==
  /\ last.op = "retrieve" /\ last.out # <<>>
  /\ last.out[1].text # store.data.chunks[last.out[1].index + 1].text
  /\ cache # [p \in CachePaths |-> NoEntry]

\* No store can be loaded: the artifact is missing or unreadable, or holds
\* no index, or its chunk count differs from its vector count.
NoLoadableStore ==
  \/ store.kind # "ok"
  \/ store.data.index.null
  \/ Len(store.data.chunks) # Len(store.data.index.xb)

\* C24: when no store can be loaded (never built, cleared, or failing the
\* integrity check), retrieve, retrieve_by_page, search_by_keyword and
\* hybrid_search each return the empty sequence, and check_file_embeddings
\* returns false when the artifact is missing.
C24_NoStoreNoResults ==
  /\ NoLoadableStore
       /\ last.op \in {"retrieve", "retrieve_by_page", "search_by_keyword", "hybrid_search"}
     => last.out = <<>>
  /\ store.kind = "missing" /\ last.op = "check" => last.ret = "false"

C24_Witness ==
  /\ last.op = "search_by_keyword" /\ last.args.keyword = <<>>
  /\ store.kind = "ok" /\ ~store.data.index.null
  /\ Len(store.data.chunks) = 2 /\ Len(store.data.index.xb) = 1
  /\ last.out = <<>>


\* C25: the persisted store is append-only between clears: for every
\* successful build_vector_store on a readable store, the chunk sequence and
\* the vector sequence persisted before the call are unchanged prefixes of
\* the sequences persisted after it.
C25_AppendOnly ==
  [][Built' /\ store.kind = "ok" =>
       LET chunks == store.data.chunks
           xb == store.data.index.xb
       IN /\ store'.kind = "ok"
          /\ Len(store'.data.chunks) >= Len(chunks)
          /\ SubSeq(store'.data.chunks, 1, Len(chunks)) = chunks
          /\ Len(store'.data.index.xb) >= Len(xb)
          /\ SubSeq(store'.data.index.xb, 1, Len(xb)) = xb]_vars

C25_Witness ==
  /\ Built /\ Len(last.chunks) = 1
  /\ Len(store.data.chunks) = 2 /\ Len(store.data.index.xb) = 2
  /\ store.data.chunks[2].index = 1 /\ last.calls = 1

\* C26: a persisted store that fails the integrity check (chunk count
\* different from index count) is treated as no store by every operation,
\* build_vector_store included: a successful build after such corruption
\* starts from an empty store, so load_vector_store succeeds afterwards.
C26_BuildAfterCorruption ==
  [][Built' /\ store.kind = "ok" /\ ~Consistent(store) =>
       /\ LoadResult(store').ok
       /\ Len(store'.data.chunks) = Len(last'.chunks)]_vars


\* C27: after a successful build_vector_store(chunks, source_file) onto a
\* store with n chunks, file_map[source_file] holds the fingerprint of
\* source_file and chunk_indices = [n .. n + len(chunks) - 1]; the entries of
\* other source files are unchanged; a build without source_file changes no
\* entry; every index in every entry is a valid position of the chunk
\* sequence.
C27_FileMapAfterBuild ==
  [][Built' =>
       LET existing_data == ExistingData(store)
           n == Len(existing_data.chunks)
           m == Len(last'.chunks)
           file_map == store'.data.file_map
       IN /\ \A f \in AllFiles :
               last'.src = f =>
                 /\ f \in DOMAIN file_map
                 /\ file_map[f].hash = get_file_hash(f)
                 /\ file_map[f].chunk_indices = [i \in 1..m |-> n + i - 1]
          /\ \A g \in DOMAIN existing_data.file_map :
               g # last'.src => g \in DOMAIN file_map
                                /\ file_map[g] = existing_data.file_map[g]
          /\ DOMAIN file_map \subseteq DOMAIN existing_data.file_map \cup {last'.src}
          /\ last'.src = NoFile => file_map = existing_data.file_map
          /\ \A g \in DOMAIN file_map :
               \A i \in 1..Len(file_map[g].chunk_indices) :
                 file_map[g].chunk_indices[i] \in 0..(Len(store'.data.chunks) - 1)]_vars

C27_Witness ==
  /\ Built /\ last.src = OtherFile
  /\ DOMAIN store.data.file_map = AllFiles
  /\ store.data.file_map["docs/doc.pdf"].chunk_indices = <<0>>
  /\ store.data.file_map[OtherFile].chunk_indices = <<1>>
  /\ store.data.file_map[OtherFile].hash = MD5(2)


\* The dimensions of the vectors a build adds: those of the cache entry on a
\* hit, those that get_embedding returns otherwise.
BuildDims(chunks, sf, fail) ==
  LET cached == CachedEmbeddings(sf, cache)
      new_embeddings ==
        IF cached = <<>>
        THEN get_embedding([i \in 1..Len(chunks) |-> chunks[i].text], fail, EmbedDim)
        ELSE cached
  IN {new_embeddings[i].d : i \in 1..Len(new_embeddings)}

\* The persisted index keeps its dimension from one persisted state to the
\* next, until a clear.
DimensionKept ==
  indexDim # 0 /\ last'.op # "clear" /\ PersistedDim(store') # 0 =>
    PersistedDim(store') = indexDim

\* A build whose vectors differ in dimension from the persisted index leaves
\* the persisted store as it was.
OtherDimensionRejected ==
  last'.op = "build" /\ PersistedDim(store) # 0 =>
    \A f \in AllFiles \cup {NoFile} :
      /\ last'.src = f
      /\ \E d \in BuildDims(last'.chunks, f, last'.fail) : d # PersistedDim(store)
      => store' = store

\* C28: the dimension of the persisted index is fixed by the first build
\* after creation or clear and is the same in every later persisted state
\* until the next clear; a build whose vectors have a different dimension
\* does not change the persisted store.
C28_DimensionFixed == [][DimensionKept /\ OtherDimensionRejected]_vars

\* C29: an embedding cache entry that exists, is loadable and holds a
\* non-empty embedding list is never rewritten or deleted by any operation: a
\* build for a file with the same basename and the same content hash only
\* reads it.
C29_CacheEntryKept ==
  [][/\ \A p \in CachePaths :
          cache[p].kind = "ok" /\ cache[p].embeddings # <<>> => cache'[p] = cache[p]
     /\ \A f \in AllFiles :
          /\ last'.op = "build" /\ last'.src = f /\ last'.chunks # <<>>
          /\ get_embedding_path(f) # NoPath
          /\ cache[get_embedding_path(f)].kind = "ok"
          /\ cache[get_embedding_path(f)].embeddings # <<>>
          => last'.hit /\ last'.calls = 0 /\ cache' = cache]_vars

C29_Witness ==
  /\ Built /\ last.hit /\ last.src = OtherFile
  /\ DOMAIN store.data.file_map = AllFiles
  /\ store.data.file_map["docs/doc.pdf"].hash = get_file_hash(OtherFile)
  /\ cache[get_embedding_path(OtherFile)].kind = "ok"
  /\ Len(cache[get_embedding_path(OtherFile)].embeddings) = 1

\* The cache cannot serve source file f: the file cannot be hashed, or the
\* entry is missing or fails to load.
CacheFailure(f) ==
  \/ get_embedding_path(f) = NoPath
  \/ cache[get_embedding_path(f)].kind # "ok"

\* The artifact a build for source file f persists when the build without a
\* cache ends as ref does.
StoreWithFileMap(ref, chunks, f) ==
  IF ref.ret = "index"
  THEN OkFile([ref.store.data EXCEPT
                 !.file_map = UpdateFileMap(ExistingData(store), chunks, f)])
  ELSE ref.store

\* C30: embedding cache failures never change the outcome of a build: when
\* the cache entry is missing, corrupted or unreadable, or when writing it
\* fails, or when the source file cannot be hashed, build_vector_store
\* computes the embeddings with the provider, returns the same result and
\* persists the same store as a build that computes them with no cache
\* failure.
C30_CacheFailureIsMiss ==
  [][\A f \in AllFiles :
       last'.op = "build" /\ last'.src = f /\ CacheFailure(f) =>
         \E soutcome \in WriteOutcomes :
           LET ref == BuildResult(last'.chunks, NoFile, last'.fail, "ok", soutcome)
           IN /\ ~last'.hit
              /\ last'.calls = ref.calls
              /\ last'.ret = ref.ret
              /\ last'.raised = ref.raised
              /\ store' = StoreWithFileMap(ref, last'.chunks, f)]_vars

C30_Witness ==
  /\ Built /\ ~last.hit /\ last.src \in AllFiles /\ last.calls = Len(last.chunks)
  /\ get_embedding_path(last.src) # NoPath
  /\ cache[get_embedding_path(last.src)] = BadEntry

\* ------------------------------------------------------------ get_time_ago
\* utils.py:69-95. A timestamp is a string that strptime rejects or one that
\* names a whole second; age is the number of whole seconds from it to now()
\* (now() carries microseconds, so the real age lies in [age, age + 1)).
Unparseable == [parses |-> FALSE, age |-> 0]

Timestamp(age) == [parses |-> TRUE, age |-> age]

SecondsPerDay == 86400

\* Ages around each limit of get_time_ago, and every age up to a minute.
AgeSamples ==
  (0..61) \cup {119, 120, 3540, 3599, 3600, 3601, 3660, 7199, 7200, 7201, 10800,
                86399, 86400, 86401, 90000, 172799, 172800, 259200}

Timestamps == {Unparseable} \cup {Timestamp(a) : a \in AgeSamples}

\* str() of a natural number, as the characters of its decimal digits.
Digit(n) == <<"0", "1", "2", "3", "4", "5", "6", "7", "8", "9">>[n + 1]

RECURSIVE Decimal(_)
Decimal(n) == IF n < 10 THEN <<Digit(n)>> ELSE Decimal(n \div 10) \o <<Digit(n % 10)>>

\* utils.py:83-92, on the days and seconds fields of the timedelta.
TimeAgo(days, seconds) ==
  IF days > 0 THEN Decimal(days) \o <<"d", " ", "a", "g", "o">>
  ELSE IF seconds > 3600 THEN Decimal(seconds \div 3600) \o <<"h", " ", "a", "g", "o">>
  ELSE IF seconds > 60 THEN Decimal(seconds \div 60) \o <<"m", " ", "a", "g", "o">>
  ELSE <<"j", "u", "s", "t", " ", "n", "o", "w">>

get_time_ago(timestamp_str) ==
  IF ~timestamp_str.parses THEN <<"u", "n", "k", "n", "o", "w", "n">>
  ELSE TimeAgo(timestamp_str.age \div SecondsPerDay, timestamp_str.age % SecondsPerDay)

InitTime ==
  /\ store = MissingFile
  /\ cache = [p \in CachePaths |-> NoEntry]
  /\ files = [f \in Files |-> 1]
  /\ apiKey = TRUE
  /\ \E t \in Timestamps :
       last = Outcome("timestamp", FALSE, "none", <<t>>, 0, <<>>, NoFile, FALSE)
  /\ indexDim = 0
  /\ builders = NoBuilders
  /\ session = NoSession
  /\ fallback = NoFallback

CallTimeAgo ==
  /\ last.op = "timestamp"
  /\ last' = Outcome("get_time_ago", FALSE, "str",
                     [timestamp |-> last.out[1], text |-> get_time_ago(last.out[1])],
                     0, <<>>, NoFile, FALSE)
  /\ UNCHANGED <<store, cache, files, apiKey, indexDim, builders, session, fallback>>

NextTime == CallTimeAgo

SpecTime == InitTime /\ [][NextTime]_vars

\* C31: get_time_ago returns the whole number of days followed by "d ago"
\* for an age of at least one day; the whole number of hours followed by
\* "h ago" for at least one hour and under one day; the whole number of
\* minutes followed by "m ago" for at least one minute and under one hour;
\* "just now" for under one minute; "unknown" for an unparseable string.
C31_TimeAgoUnits ==
  last.op = "get_time_ago" =>
    LET t == last.out.timestamp
        text == last.out.text
    IN /\ ~t.parses => text = <<"u", "n", "k", "n", "o", "w", "n">>
       /\ t.parses /\ t.age >= SecondsPerDay =>
            text = Decimal(t.age \div SecondsPerDay) \o <<"d", " ", "a", "g", "o">>
       /\ t.parses /\ t.age >= 3600 /\ t.age < SecondsPerDay =>
            text = Decimal(t.age \div 3600) \o <<"h", " ", "a", "g", "o">>
       /\ t.parses /\ t.age >= 60 /\ t.age < 3600 =>
            text = Decimal(t.age \div 60) \o <<"m", " ", "a", "g", "o">>
       /\ t.parses /\ t.age < 60 => text = <<"j", "u", "s", "t", " ", "n", "o", "w">>

\* C32: check_file_embeddings(f) returns false whenever the file f cannot be
\* read at the time of the check, including when f was indexed by a build
\* during which it could not be read either (the recorded fingerprint is the
\* empty string).
C32_UnreadableFileNotUpToDate ==
  \A f \in Files :
    last.op = "check" /\ last.src = f /\ files[f] = Unreadable => last.ret = "false"

\* ------------------------------------------------------- ingestion workflow
\* helper.py:63-85: the chunks of a PDF are a function of its bytes; each
\* byte content has its own text.
ProcessPdf(c) == <<[text |-> TextList[c], page |-> 1]>>

MaxIngested == 3

\* app.py:184-190 on the bytes at path f (the write of the upload,
\* app.py:181-182, is WriteSourceFile): the build runs only when
\* check_file_embeddings is false; PdfReader raises on a file it cannot read
\* and the handler catches every exception (app.py:195-197).
Ingest(f, fail, woutcome, soutcome) ==
  IF CheckResult(store, f)
  THEN /\ last' = Outcome("ingest", FALSE, "cached", <<>>, 0, <<>>, f, FALSE)
       /\ UNCHANGED <<store, cache, files, apiKey, indexDim, builders, session, fallback>>
  ELSE IF files[f] = Unreadable
  THEN /\ last' = Outcome("ingest", TRUE, "raise", <<>>, 0, <<>>, f, FALSE)
       /\ UNCHANGED <<store, cache, files, apiKey, indexDim, builders, session, fallback>>
  ELSE LET chunks == ProcessPdf(files[f])
           r == BuildResult(chunks, f, fail, woutcome, soutcome)
       IN /\ Len(ExistingData(store).chunks) + Len(chunks) <= MaxIngested
          /\ store' = r.store
          /\ cache' = r.cache
          /\ last' = [Outcome("ingest", r.raised, r.ret, <<>>, r.calls, chunks, f, r.hit)
                        EXCEPT !.fail = fail]
          /\ UNCHANGED <<files, apiKey, indexDim, builders, session, fallback>>

InitIngest ==
  /\ store = MissingFile
  /\ cache = [p \in CachePaths |-> NoEntry]
  /\ files \in [Files -> Contents]
  /\ apiKey = TRUE
  /\ last = Outcome("init", FALSE, "none", <<>>, 0, <<>>, NoFile, FALSE)
  /\ indexDim = 0
  /\ builders = NoBuilders
  /\ session = NoSession
  /\ fallback = NoFallback

\* Uploads and content changes of the source files; the store is never
\* cleared.
NextIngest ==
  \/ \E f \in Files, c \in Contents \cup {Unreadable} : WriteSourceFile(f, c)
  \/ \E f \in Files, woutcome \in WriteOutcomes, soutcome \in WriteOutcomes :
       \E fail \in FailSets(1) : Ingest(f, fail, woutcome, soutcome)

SpecIngest == InitIngest /\ [][NextIngest]_vars

\* The number of persisted chunks that have the text of chunk c.
Copies(c) ==
  Cardinality({i \in 1..Len(store.data.chunks) : store.data.chunks[i].text = c.text})

\* C33: in the ingestion workflow (check_file_embeddings(f), and
\* build_vector_store(process_pdf(f), f) only when the check is false), for
\* any sequence of uploads and content changes of a source path without an
\* intervening clear, the chunks of one byte content are appended to the
\* store at most once.
C33_ContentIngestedOnce ==
  store.kind = "ok" =>
    \A c \in Contents :
      \A i \in 1..Len(ProcessPdf(c)) : Copies(ProcessPdf(c)[i]) <= 1

\* ------------------------------------------- two builds on one store path
\* Two processes call build_vector_store(chunks) with no source file and a
\* working provider; each call is the steps of vectordb.py:73-79 (load),
\* 96-131 (embed, add, extend) and 140-148 (save, return), and the steps of
\* the two calls interleave freely: the code takes no lock.
Builders == {1, 2}

\* The chunks of process p carry the text TextList[p].
BuilderChunks(p) ==
  {[i \in 1..n |-> [text |-> TextList[p], page |-> i]] : n \in 1..MaxChunks}

\* The store the calls find.
BuilderStores ==
  {MissingFile, UnreadableFile,
   BuiltArtifact(<<[text |-> TextList[1], page |-> 2]>>, FALSE)}

Builder(pc, chunks, existing_data, data, ret) ==
  [pc |-> pc, chunks |-> chunks, existing_data |-> existing_data, data |-> data,
   ret |-> ret]

InitBuilders ==
  /\ store \in BuilderStores
  /\ cache = [p \in CachePaths |-> NoEntry]
  /\ files = [f \in Files |-> 1]
  /\ apiKey = TRUE
  /\ last = Outcome("init", FALSE, "none", <<>>, 0, <<>>, NoFile, FALSE)
  /\ indexDim = 0
  /\ builders \in [Builders -> UNION {{Builder("called", cs, EmptyData, EmptyData, "none") :
                                         cs \in BuilderChunks(p)} : p \in Builders}]
  /\ \A p \in Builders : builders[p].chunks \in BuilderChunks(p)
  /\ session = NoSession
  /\ fallback = NoFallback

\* vectordb.py:73-79
BuilderLoad(p) ==
  /\ builders[p].pc = "called"
  /\ builders' = [builders EXCEPT ![p].pc = "loaded",
                                  ![p].existing_data = ExistingData(store)]
  /\ UNCHANGED <<store, cache, files, apiKey, last, indexDim, session, fallback>>

\* vectordb.py:96-131
BuilderAppend(p) ==
  /\ builders[p].pc = "loaded"
  /\ LET chunks == builders[p].chunks
         existing_data == builders[p].existing_data
         new_embeddings ==
           get_embedding([i \in 1..Len(chunks) |-> chunks[i].text], {}, EmbedDim)
         index == IndexToUpdate(existing_data, new_embeddings)
     IN builders' =
          [builders EXCEPT
             ![p].pc = "appended",
             ![p].data = [index |-> IndexAdd(index, new_embeddings),
                          chunks |-> ExtendChunks(existing_data, chunks),
                          file_map |-> UpdateFileMap(existing_data, chunks, NoFile)]]
  /\ UNCHANGED <<store, cache, files, apiKey, last, indexDim, session, fallback>>

\* vectordb.py:140-148
BuilderSave(p) ==
  /\ builders[p].pc = "appended"
  /\ store' = SaveStore(store, builders[p].data, "ok")
  /\ builders' = [builders EXCEPT ![p].pc = "returned", ![p].ret = "index"]
  /\ UNCHANGED <<cache, files, apiKey, last, indexDim, session, fallback>>

NextBuilders ==
  \E p \in Builders : BuilderLoad(p) \/ BuilderAppend(p) \/ BuilderSave(p)

SpecBuilders == InitBuilders /\ [][NextBuilders]_vars

\* Chunk c is persisted: some stored chunk has its text and page.
Persisted(c) ==
  \E i \in 1..Len(store.data.chunks) :
    store.data.chunks[i].text = c.text /\ store.data.chunks[i].page = c.page

\* C34: for every interleaving of the load, append and save steps of two
\* build_vector_store calls on the same store path, once both calls have
\* returned a non-null index the persisted chunk sequence contains the chunks
\* of both calls and satisfies len(chunks) == index.ntotal.
C34_BothBuildsPersisted ==
  (\A p \in Builders : builders[p].pc = "returned" /\ builders[p].ret = "index") =>
    /\ Consistent(store)
    /\ \A p \in Builders :
         \A i \in 1..Len(builders[p].chunks) : Persisted(builders[p].chunks[i])

\* The builds of source file f with a working provider and working writes
\* make no provider call and take the cached embeddings.
BuildsFromCache(f) ==
  \A chunks \in ChunkLists \ {<<>>} :
    LET r == BuildResult(chunks, f, {}, "ok", "ok")
    IN r.hit /\ r.calls = 0

Cached(f) ==
  /\ get_embedding_path(f) # NoPath
  /\ cache[get_embedding_path(f)].kind = "ok"
  /\ cache[get_embedding_path(f)].embeddings # <<>>

SearchPadded(xb, qv, k) ==
  LET found == Nearest(xb, qv, Min(k, Len(xb)), {})
  IN found \o [i \in 1..(k - Len(found)) |-> -1]

\* chunks[i] for a Python list: a negative i counts from the end.
ListPosition(chunks, i) == IF i < 0 THEN Len(chunks) + i ELSE i

\* vectordb.py:284-302 with a working provider; each result is given with
\* its position in the stored list. The embeddings are recomputed from the
\* chunk texts (vectordb.py:291-296); a missing API key raises in
\* get_embedding, a recomputed vector of another dimension than the index
\* raises in search.
SimilarChunksResult(artifact, chunk_index, top_k) ==
  LET r == LoadResult(artifact)
      target_emb == get_embedding(<<r.chunks[chunk_index + 1].text>>, {}, EmbedDim)[1]
      I == SearchPadded(r.index.xb, target_emb.v, top_k + 1)
  IN IF ~r.ok \/ chunk_index >= Len(r.chunks)
     THEN [raised |-> FALSE, results |-> <<>>]
     ELSE IF ~apiKey \/ target_emb.d # r.index.d
     THEN [raised |-> TRUE, results |-> <<>>]
     ELSE [raised |-> FALSE,
           results |-> [j \in 1..(Len(I) - 1) |->
                          [position |-> ListPosition(r.chunks, I[j + 1]),
                           chunk |-> r.chunks[ListPosition(r.chunks, I[j + 1]) + 1]]]]

get_similar_chunks(chunk_index, top_k) ==
  LET r == SimilarChunksResult(store, chunk_index, top_k)
  IN /\ last' = [Outcome("get_similar_chunks", r.raised,
                         IF r.raised THEN "raise" ELSE "list",
                         [chunk_index |-> chunk_index, results |-> r.results],
                         0, <<>>, NoFile, FALSE)
                   EXCEPT !.args = [NoArgs EXCEPT !.top_k = top_k]]
     /\ UNCHANGED <<store, cache, files, apiKey, indexDim, builders, session, fallback>>

NextSimilar ==
  \E chunk_index \in 0..MaxChunks, top_k \in TopKs : get_similar_chunks(chunk_index, top_k)

SpecSimilar == InitQuery /\ [][NextSimilar]_vars

\* C36: get_similar_chunks(chunk_index, top_k) returns at most top_k stored
\* chunks, none of which is the chunk at chunk_index and none of which
\* appears twice, for every store size (stores with fewer than top_k + 1
\* chunks and stores that contain duplicate chunks included).
C36_SimilarChunksDistinct ==
  last.op = "get_similar_chunks" =>
    LET results == last.out.results
    IN /\ Len(results) <= last.args.top_k
       /\ \A j \in 1..Len(results) : results[j].position # last.out.chunk_index
       /\ \A j, k \in 1..Len(results) :
            j # k => results[j].position # results[k].position

\* --------------------------------------------------- calculate_study_streak
\* Calendar days are numbered; Today is datetime.now().date(). BadDate is a
\* "date" string that strptime rejects (utils.py:375-377).
Today == 10
BadDate == -1
MaxHistory == 3
QuizDates == ((Today - 3)..Today) \cup {BadDate}
QuizHistories == UNION {[1..n -> QuizDates] : n \in 0..MaxHistory}

\* utils.py:370-377: the set of the parsed dates.
ParsedDates(quiz_history) ==
  {quiz_history[i] : i \in 1..Len(quiz_history)} \ {BadDate}

\* sorted(quiz_dates, reverse=True)
RECURSIVE SortedDescending(_)
SortedDescending(dates) ==
  IF dates = {} THEN <<>>
  ELSE LET top == CHOOSE d \in dates : \A e \in dates : e <= d
       IN <<top>> \o SortedDescending(dates \ {top})

\* utils.py:386-392, the loop from position i (0-based) with streak so far.
RECURSIVE StreakLoop(_, _, _)
StreakLoop(sorted_dates, i, streak) ==
  IF i >= Len(sorted_dates) THEN streak
  ELSE IF i = 0 /\ sorted_dates[i + 1] # Today
  THEN StreakLoop(sorted_dates, i + 1, streak)
  ELSE IF i > 0 /\ sorted_dates[i] - sorted_dates[i + 1] = 1
  THEN StreakLoop(sorted_dates, i + 1, streak + 1)
  ELSE streak

calculate_study_streak(quiz_history) ==
  IF quiz_history = <<>> THEN 0
  ELSE IF ParsedDates(quiz_history) = {} THEN 0
  ELSE StreakLoop(SortedDescending(ParsedDates(quiz_history)), 0, 1)

InitStreak ==
  /\ store = MissingFile
  /\ cache = [p \in CachePaths |-> NoEntry]
  /\ files = [f \in Files |-> 1]
  /\ apiKey = TRUE
  /\ \E h \in QuizHistories :
       last = Outcome("history", FALSE, "none", h, 0, <<>>, NoFile, FALSE)
  /\ indexDim = 0
  /\ builders = NoBuilders
  /\ session = NoSession
  /\ fallback = NoFallback

CallStudyStreak ==
  /\ last.op = "history"
  /\ last' = Outcome("calculate_study_streak", FALSE, "int",
                     [quiz_history |-> last.out,
                      streak |-> calculate_study_streak(last.out)],
                     0, <<>>, NoFile, FALSE)
  /\ UNCHANGED <<store, cache, files, apiKey, indexDim, builders, session, fallback>>

NextStreak == CallStudyStreak

SpecStreak == InitStreak /\ [][NextStreak]_vars

\* The number of consecutive calendar days with a quiz, counted backwards
\* from the most recent quiz day.
RECURSIVE ConsecutiveDays(_, _)
ConsecutiveDays(dates, day) ==
  IF day \in dates THEN 1 + ConsecutiveDays(dates, day - 1) ELSE 0

MostRecent(dates) == CHOOSE d \in dates : \A e \in dates : e <= d

\* C37: calculate_study_streak returns the number of consecutive calendar
\* days with at least one quiz, counted backwards from the most recent quiz
\* day (3 for today, yesterday and the day before), and 0 for an empty
\* history.
C37_StreakCountsConsecutiveDays ==
  last.op = "calculate_study_streak" =>
    LET dates == ParsedDates(last.out.quiz_history)
    IN /\ last.out.quiz_history = <<>> => last.out.streak = 0
       /\ dates # {} => last.out.streak = ConsecutiveDays(dates, MostRecent(dates))
       /\ dates = {Today, Today - 1, Today - 2} => last.out.streak = 3

\* ------------------------------------------------ _fallback_quiz_from_context
\* A sentence is named by a number: sentence s has 20 + s characters after
\* strip(), so sentence 0 is the longest one the filter of llm.py:325
\* drops. The text of a context chunk is given as the list re.split makes
\* of it (llm.py:324).
MaxSentences == 2
MaxContext == 2
Sentences == 0..4
SentenceLen(s) == 20 + s
NumQuestions == {0, 1, 2}

RECURSIVE Flatten(_)
Flatten(lists) ==
  IF lists = <<>> THEN <<>> ELSE Head(lists) \o Flatten(Tail(lists))

NonDecreasing(seq) == \A i \in 1..(Len(seq) - 1) : seq[i] <= seq[i + 1]

ChunkTexts == UNION {[1..n -> Sentences] : n \in 0..MaxSentences}
FallbackContexts ==
  {context \in UNION {[1..n -> ChunkTexts] : n \in 0..MaxContext} :
     NonDecreasing(Flatten(context))}

\* llm.py:323-325
LongSentences(context) ==
  SelectSeq(Flatten(context), LAMBDA s : SentenceLen(s) > 20)

\* random.shuffle: every order of the list.
Shuffles(list) ==
  {[i \in 1..Len(list) |-> list[p[i]]] :
     p \in {q \in [1..Len(list) -> 1..Len(list)] :
              \A i, j \in 1..Len(list) : q[i] = q[j] => i = j}}

InList(list, x) == \E i \in 1..Len(list) : list[i] = x

FallbackFrame(pc, num_questions, sentences, i, options, quiz) ==
  [pc |-> pc, num_questions |-> num_questions, sentences |-> sentences,
   i |-> i, options |-> options, quiz |-> quiz]

InitFallback ==
  /\ store = MissingFile
  /\ cache = [p \in CachePaths |-> NoEntry]
  /\ files = [f \in Files |-> 1]
  /\ apiKey = TRUE
  /\ last = Outcome("init", FALSE, "none", <<>>, 0, <<>>, NoFile, FALSE)
  /\ indexDim = 0
  /\ builders = NoBuilders
  /\ session = NoSession
  /\ \E context \in FallbackContexts, num_questions \in NumQuestions :
       fallback = FallbackFrame("called", num_questions, LongSentences(context),
                                0, <<>>, <<>>)

\* llm.py:326
FallbackShuffle ==
  /\ fallback.pc = "called"
  /\ \E shuffled \in Shuffles(fallback.sentences) :
       fallback' = [fallback EXCEPT !.pc = "for", !.sentences = shuffled]
  /\ UNCHANGED <<store, cache, files, apiKey, last, indexDim, builders, session>>

\* llm.py:328-331 and 343: the next question, or the return.
FallbackFor ==
  /\ fallback.pc = "for"
  /\ fallback' =
       IF fallback.i < Min(fallback.num_questions, Len(fallback.sentences))
       THEN [fallback EXCEPT !.pc = "while",
                             !.options = <<fallback.sentences[fallback.i + 1]>>]
       ELSE [fallback EXCEPT !.pc = "returned"]
  /\ UNCHANGED <<store, cache, files, apiKey, last, indexDim, builders, session>>

\* llm.py:332-335: one turn of the while loop.
FallbackChoice ==
  /\ fallback.pc = "while"
  /\ Len(fallback.options) < 4
  /\ \E option \in {fallback.sentences[j] : j \in 1..Len(fallback.sentences)} :
       fallback' =
         IF ~InList(fallback.options, option)
         THEN [fallback EXCEPT !.options = Append(fallback.options, option)]
         ELSE fallback
  /\ UNCHANGED <<store, cache, files, apiKey, last, indexDim, builders, session>>

\* llm.py:336-342
FallbackQuestion ==
  /\ fallback.pc = "while"
  /\ Len(fallback.options) >= 4
  /\ \E options \in Shuffles(fallback.options) :
       fallback' =
         [fallback EXCEPT
            !.pc = "for",
            !.i = fallback.i + 1,
            !.options = options,
            !.quiz = Append(fallback.quiz,
                            [question |-> fallback.sentences[fallback.i + 1],
                             options |-> options,
                             correct |-> fallback.sentences[fallback.i + 1]])]
  /\ UNCHANGED <<store, cache, files, apiKey, last, indexDim, builders, session>>

NextFallback ==
  \/ FallbackShuffle
  \/ FallbackFor
  \/ FallbackChoice
  \/ FallbackQuestion

SpecFallback == InitFallback /\ [][NextFallback]_vars

\* random.choice gives every sentence again and again, so a turn of the
\* loop that can change the state is eventually taken.
SpecFallbackFair == SpecFallback /\ WF_vars(NextFallback)

\* C38: _fallback_quiz_from_context terminates for every context and every
\* num_questions (contexts with fewer than four distinct sentences longer
\* than 20 characters included), and each question it returns has exactly
\* four distinct options one of which is the correct answer.
C38_FallbackTerminates ==
  <>(/\ fallback.pc = "returned"
     /\ \A n \in 1..Len(fallback.quiz) :
          LET q == fallback.quiz[n]
          IN /\ Len(q.options) = 4
             /\ \A j, k \in 1..4 : j # k => q.options[j] # q.options[k]
             /\ InList(q.options, q.correct))

\* ------------------------------------------------------------- quiz mode
\* st.session_state after init_session (app.py:75-111): the keys the quiz and
\* flashcard pages read and write. current_quiz is None (null) or a list of
\* questions; quiz_answers maps 0-based question numbers to answers.
NoQuiz == [null |-> TRUE, quiz |-> <<>>]
ActiveQuiz(quiz) == [null |-> FALSE, quiz |-> quiz]

SessionDefaults ==
  [current_quiz |-> NoQuiz,
   quiz_answers |-> <<>>,
   quiz_history |-> <<>>,
   flashcards |-> <<>>,
   current_card_index |-> 0,
   show_answer |-> FALSE,
   marked_cards |-> {}]

\* Questions as the model's JSON gives them after the clean-up of
\* llm.py:192-196: a question without "options" gets the empty list.
MaxQuestions == 2
QuizOptions == <<<<"A">>, <<"B">>>>
QuizQuestions ==
  {[question |-> <<"Q">>, options |-> options, correct |-> correct] :
     options \in {<<>>, QuizOptions}, correct \in {<<"a">>, <<"B">>}}
GeneratedQuizzes == UNION {[1..n -> QuizQuestions] : n \in 0..MaxQuestions}

SessionStores == {MissingFile} \cup {BuiltArtifact(cs, FALSE) : cs \in ChunkLists}

InitSession ==
  /\ store \in SessionStores
  /\ cache = [p \in CachePaths |-> NoEntry]
  /\ files = [f \in Files |-> 1]
  /\ apiKey \in BOOLEAN
  /\ last = Outcome("init", FALSE, "none", <<>>, 0, <<>>, NoFile, FALSE)
  /\ indexDim = 0
  /\ builders = NoBuilders
  /\ session = SessionDefaults
  /\ fallback = NoFallback

\* llm.py:149-150, 187-197: nothing without context or API key, else the
\* questions of the model's answer.
generate_quiz_adaptive(context, generated) ==
  IF context = <<>> \/ ~apiKey THEN <<>> ELSE generated

\* "Generate Quiz", app.py:247-275, with no topic: the context is the first
\* stored chunks.
GenerateQuiz(generated) ==
  /\ LoadResult(store).chunks # <<>>
  /\ session.current_quiz.null
  /\ LET quiz == generate_quiz_adaptive(LoadResult(store).chunks, generated)
     IN session' = IF quiz # <<>>
                   THEN [session EXCEPT !.current_quiz = ActiveQuiz(quiz),
                                        !.quiz_answers = <<>>]
                   ELSE session
  /\ UNCHANGED <<store, cache, files, apiKey, last, indexDim, builders, fallback>>

\* "Submit" under question i, app.py:289-300: a question without options
\* shows no radio and no button.
SubmitAnswer(i, answer) ==
  /\ LoadResult(store).chunks # <<>>
  /\ ~session.current_quiz.null
  /\ i \in 0..(Len(session.current_quiz.quiz) - 1)
  /\ session.current_quiz.quiz[i + 1].options # <<>>
  /\ i \notin DOMAIN session.quiz_answers
  /\ InList(session.current_quiz.quiz[i + 1].options, answer)
  /\ session' = [session EXCEPT !.quiz_answers = (i :> answer) @@ session.quiz_answers]
  /\ UNCHANGED <<store, cache, files, apiKey, last, indexDim, builders, fallback>>

\* app.py:305: the state in which "Submit Quiz" is shown.
SubmitQuizShown ==
  /\ ~session.current_quiz.null
  /\ Cardinality(DOMAIN session.quiz_answers) = Len(session.current_quiz.quiz)

\* app.py:309-329
QuizScore(quiz, quiz_answers) ==
  Cardinality({i \in 0..(Len(quiz) - 1) :
                 Lower(IF i \in DOMAIN quiz_answers THEN quiz_answers[i] ELSE <<>>)
                   = Lower(quiz[i + 1].correct)})

\* "Submit Quiz", app.py:305-329. The "Try Again" button of app.py:352-355
\* is drawn inside the branch of this button, so the run its click starts
\* does not reach it: it changes nothing.
SubmitQuiz ==
  /\ LoadResult(store).chunks # <<>>
  /\ SubmitQuizShown
  /\ Len(session.quiz_history) < MaxHistory
  /\ session' =
       [session EXCEPT
          !.quiz_history =
            Append(@, [score |-> QuizScore(session.current_quiz.quiz, session.quiz_answers),
                       total |-> Len(session.current_quiz.quiz)])]
  /\ UNCHANGED <<store, cache, files, apiKey, last, indexDim, builders, fallback>>

AnswerQuestion ==
  \E i \in 0..(MaxQuestions - 1), answer \in {<<"A">>, <<"B">>} : SubmitAnswer(i, answer)

NextQuiz ==
  \/ \E generated \in GeneratedQuizzes : GenerateQuiz(generated)
  \/ AnswerQuestion
  \/ SubmitQuiz

SpecQuiz == InitSession /\ [][NextQuiz]_vars

\* The user keeps answering the questions that can be answered.
SpecQuizFair == SpecQuiz /\ WF_vars(AnswerQuestion)

\* C39: from any active quiz the user eventually reaches the state
\* len(quiz_answers) == len(quiz) that shows "Submit Quiz", by answering the
\* questions one at a time, for every generated quiz (a quiz with a question
\* whose options list is empty included).
C39_SubmitQuizReached == (~session.current_quiz.null) ~> SubmitQuizShown

\* -------------------------------------------------------- flashcard mode
\* The cards of the model's answer (llm.py:127-129): objects with
\* "question"/"answer", with "front"/"back", or with neither.
MaxCards == 3
GeneratedCards ==
  {[question |-> "Q", answer |-> "A"], [front |-> "F", back |-> "B"], [note |-> "N"]}
GeneratedDecks == UNION {[1..n -> GeneratedCards] : n \in 0..MaxCards}

\* card.get(key, default)
Get(card, key, default) == IF key \in DOMAIN card THEN card[key] ELSE default

\* app.py:380-386
FormatCards(cards) ==
  [n \in 1..Len(cards) |->
     [front |-> Get(cards[n], "question", Get(cards[n], "front", "")),
      back |-> Get(cards[n], "answer", Get(cards[n], "back", "")),
      mastered |-> FALSE]]

\* llm.py:85-86
generate_flashcards(context, generated) ==
  IF context = <<>> \/ ~apiKey THEN <<>> ELSE generated

\* retrieve(topic) of app.py:377 for a topic that matches the stored chunks:
\* the stored chunks, none without a readable store or an API key.
TopicContext == IF apiKey THEN LoadResult(store).chunks ELSE <<>>

\* "Generate Flashcards", app.py:365-392
GenerateFlashcards(generated) ==
  /\ session.flashcards = <<>>
  /\ session' =
       IF TopicContext # <<>>
       THEN [session EXCEPT
               !.flashcards = FormatCards(generate_flashcards(TopicContext, generated)),
               !.current_card_index = 0]
       ELSE session
  /\ UNCHANGED <<store, cache, files, apiKey, last, indexDim, builders, fallback>>

\* "Got It!", app.py:423-428
GotIt ==
  /\ session.flashcards # <<>>
  /\ session' =
       [session EXCEPT
          !.marked_cards = @ \cup {session.current_card_index},
          !.current_card_index =
            IF session.current_card_index < Len(session.flashcards) - 1 THEN @ + 1 ELSE @,
          !.show_answer = FALSE]
  /\ UNCHANGED <<store, cache, files, apiKey, last, indexDim, builders, fallback>>

\* "Review Later", app.py:431-435
ReviewLater ==
  /\ session.flashcards # <<>>
  /\ session' =
       [session EXCEPT
          !.current_card_index =
            IF session.current_card_index < Len(session.flashcards) - 1 THEN @ + 1 ELSE @,
          !.show_answer = FALSE]
  /\ UNCHANGED <<store, cache, files, apiKey, last, indexDim, builders, fallback>>

\* "Show Answer", app.py:437-440
ShowAnswer ==
  /\ session.flashcards # <<>>
  /\ ~session.show_answer
  /\ session' = [session EXCEPT !.show_answer = TRUE]
  /\ UNCHANGED <<store, cache, files, apiKey, last, indexDim, builders, fallback>>

\* "Previous", app.py:447-450
Previous ==
  /\ session.flashcards # <<>>
  /\ session.current_card_index > 0
  /\ session' = [session EXCEPT !.current_card_index = @ - 1, !.show_answer = FALSE]
  /\ UNCHANGED <<store, cache, files, apiKey, last, indexDim, builders, fallback>>

\* The reset of "New Set", app.py:453-457: marked_cards is not among the
\* keys it writes.
NewSetReset(s) ==
  [s EXCEPT !.flashcards = <<>>, !.current_card_index = 0, !.show_answer = FALSE]

NewSet ==
  /\ session.flashcards # <<>>
  /\ session' = NewSetReset(session)
  /\ UNCHANGED <<store, cache, files, apiKey, last, indexDim, builders, fallback>>

\* "Next", app.py:460-463
NextCard ==
  /\ session.flashcards # <<>>
  /\ session.current_card_index < Len(session.flashcards) - 1
  /\ session' = [session EXCEPT !.current_card_index = @ + 1, !.show_answer = FALSE]
  /\ UNCHANGED <<store, cache, files, apiKey, last, indexDim, builders, fallback>>

NextFlashcards ==
  \/ \E generated \in GeneratedDecks : GenerateFlashcards(generated)
  \/ GotIt
  \/ ReviewLater
  \/ ShowAnswer
  \/ Previous
  \/ NewSet
  \/ NextCard

SpecFlashcards == InitSession /\ [][NextFlashcards]_vars

\* C40: in flashcard mode, after any sequence of Generate, Got It, Review
\* Later, Previous, Next, Show Answer and New Set, every index in
\* marked_cards is a position of the current deck, so the "Remaining" count
\* len(flashcards) - len(marked_cards) is never negative, and
\* 0 <= current_card_index < len(flashcards) whenever the deck is non-empty.
C40_MarkedCardsInDeck ==
  /\ session.marked_cards \subseteq 0..(Len(session.flashcards) - 1)
  /\ Len(session.flashcards) - Cardinality(session.marked_cards) >= 0
  /\ session.flashcards # <<>> =>
       session.current_card_index \in 0..(Len(session.flashcards) - 1)

====
